---- MODULE Spec2Model ----
(***************************************************************************)
(* A model of the reading journal's core (src/app.py): the three JSON      *)
(* documents users.json, books.json and quotes.json, the session state,    *)
(* and the functions that read and rewrite them.                           *)
(*                                                                         *)
(* A Python dict is modelled in two ways.  The top-level documents are     *)
(* only ever indexed by username, so they are TLA+ functions from the set  *)
(* of usernames they hold.  The per-user book and quote maps are iterated  *)
(* by the code (insertion order, preserved by json.dump / json.load), so   *)
(* they are sequences of entries [k |-> key, v |-> value].                 *)
(*                                                                         *)
(* Strings are TLA+ strings.  An absent value (Python None) is the empty   *)
(* tuple and a present one is a tuple around it.                           *)
(***************************************************************************)
EXTENDS Integers, Sequences, FiniteSets, TLC

VARIABLES users, books, quotes, session, clock, issued, call, pre, tabs, race

vars == <<users, books, quotes, session, clock, issued, call, pre, tabs, race>>

(***************************************************************************)
(* Bounds and input sets                                                   *)
(***************************************************************************)

\* how many identifiers uuid.uuid4() hands out in one behaviour
MaxIds == 3

\* how many calls one browser tab makes in the behaviours of SpecTabs
MaxTabCalls == 2

\* how many of them the behaviours of SpecAuth use
MaxAuthIds == 2

\* how many of them the behaviours of SpecBooks use
MaxBookIds == 2

\* the last second of the wall clock
MaxClock == 1

\* what the forms of show_auth can pass as a username
Usernames == {"", " ", "alice", "bob"}

Passwords == {"", " ", "pw", "wrong"}

\* the usernames the book and quote functions are called with
Owners == {"alice", "bob"}

UUIDs == 1..MaxIds

\* a dict as add_book's callers pass it (the form of show_book_management)
BookA ==
    [title |-> "A", author |-> "X", year |-> "2021", genres |-> <<"g">>,
     status |-> "Completed", rating |-> 5, notes |-> ""]

BookB ==
    [title |-> "B", author |-> "Y", year |-> "20210", genres |-> <<>>,
     status |-> "Want to Read", rating |-> 3, notes |-> "n"]

BookInputs == {BookA, BookB}

\* a status alone
StatusUpdate == [status |-> "Dropped"]

\* the whole form of show_book_management
FormUpdate ==
    [status |-> "Completed", year |-> "1999", genres |-> <<"h">>,
     rating |-> 1, notes |-> "m"]

UpdateInputs == {StatusUpdate, FormUpdate}

\* a dict as add_quote's callers pass it
Quote(book_title, book_id) ==
    [text |-> "t", book_title |-> book_title, book_id |-> book_id,
     page_number |-> "", tags |-> <<>>]

\* one without the book_title key
Untitled == [text |-> "t", book_id |-> 1, page_number |-> "", tags |-> <<>>]

Titles == {"A", "B"}

\* a book dict with the given status and year
YearBook(status, year) == [BookA EXCEPT !.status = status, !.year = year]

\* the books the yearly analysis is tried on
YearBookInputs ==
    { YearBook("Completed", "2021"), YearBook("Completed", "20210"),
      YearBook("Dropped", "2021"), YearBook("completed", "1920"),
      YearBook("Completed", "") }

\* the years show_analysis can ask for
Years == {2021, 1920}

(***************************************************************************)
(* Python values and built-ins                                             *)
(***************************************************************************)

None == <<>>

Some(x) == <<x>>

\* the characters str.strip() removes
Whitespace == {" ", "\t", "\n"}

RECURSIVE lstrip(_)
lstrip(s) ==
    IF Len(s) = 0 THEN s
    ELSE IF Head(s) \in Whitespace THEN lstrip(Tail(s)) ELSE s

RECURSIVE rstrip(_)
rstrip(s) ==
    IF Len(s) = 0 THEN s
    ELSE IF SubSeq(s, Len(s), Len(s)) \in Whitespace
         THEN rstrip(SubSeq(s, 1, Len(s) - 1)) ELSE s

\* strip() left out: only the empty string is taken for blank
strip_forgotten(s) == s

\* str.strip()
strip(s) == rstrip(lstrip(s))

\* datetime.now().strftime("%Y-%m-%d %H:%M:%S"): the stamp of second t.  The
\* format is fixed-width and zero-padded, most significant field first, so
\* stamps compare as strings the way their seconds compare as numbers; the
\* stamp is written as a tuple so that it is not a number.
strftime(t) == <<"Y-m-d H:M:S", t>>

\* the keys of an ordered dict
DictKeys(d) == { d[i].k : i \in 1..Len(d) }

\* d[key]
DictGet(d, key) == d[CHOOSE i \in 1..Len(d) : d[i].k = key].v

\* d[key] = value: in place for a key d has, at the end for a new one
DictSet(d, key, value) ==
    IF key \in DictKeys(d)
    THEN [i \in 1..Len(d) |->
             IF d[i].k = key THEN [k |-> key, v |-> value] ELSE d[i]]
    ELSE Append(d, [k |-> key, v |-> value])

\* del d[key]
DictDel(d, key) == SelectSeq(d, LAMBDA e : e.k # key)

\* the record replaced by the updates, not merged with them
DictUpdate_replace(rec, updates) == updates

\* dict.update(updates) on a record: the given fields replace or extend it
DictUpdate(rec, updates) ==
    [f \in DOMAIN rec \cup DOMAIN updates |->
        IF f \in DOMAIN updates THEN updates[f] ELSE rec[f]]

\* rec[field] = value
FieldSet(rec, field, value) ==
    [f \in DOMAIN rec \cup {field} |-> IF f = field THEN value ELSE rec[f]]

\* the document built anew around the one entry, the loaded one dropped
DocSet_unloaded(doc, username, value) == [u \in {username} |-> value]

\* setdefault: an entry the document has is kept as it is
DocSet_default(doc, username, value) ==
    IF username \in DOMAIN doc THEN doc
    ELSE [u \in DOMAIN doc \cup {username} |->
             IF u = username THEN value ELSE doc[u]]

\* doc[username] = value on a top-level document
DocSet(doc, username, value) ==
    [u \in DOMAIN doc \cup {username} |->
        IF u = username THEN value ELSE doc[u]]

(***************************************************************************)
(* Reads                                                                   *)
(***************************************************************************)

get_books(username) ==
    IF username \in DOMAIN books THEN books[username].books ELSE <<>>

get_quotes(username) ==
    IF username \in DOMAIN quotes THEN quotes[username].quotes ELSE <<>>

(***************************************************************************)
(* The state before a call and the call itself                             *)
(***************************************************************************)

\* the documents and the session as a call finds them
Snapshot ==
    [users |-> users, books |-> books, quotes |-> quotes, session |-> session]

\* a finished call: its function, arguments, exception ("" for none), result
Call(fn, args, raised, ret) ==
    [fn |-> fn, args |-> args, raised |-> raised, ret |-> ret]

Returned(fn, args, ret) == Call(fn, args, "", ret)

Raised(fn, args, raised, ret) == Call(fn, args, raised, ret)

\* the browser tabs: each is a session whose script runs in a thread of its
\* own, so the file operations of two calls can interleave
Tabs == {1, 2}

BOOKS_FILE == "data/books.json"

QUOTES_FILE == "data/quotes.json"

USERS_FILE == "data/users.json"

\* a tab that is in no call: where it is in the call, the function and its
\* arguments, the file it works on, its local copy of the document, whether
\* another write landed in the file since this tab opened it, and the number
\* of calls the tab has made
Idle ==
    [pc |-> "idle", fn |-> "", args |-> <<>>, file |-> "", data |-> <<>>,
     torn |-> FALSE, calls |-> 0]

\* what a call assigns in a document: an entry of a top-level document
\* (kinds "users", "books", "quotes") or a book of a user (kind "book")
Change(kind, user, id) == [kind |-> kind, user |-> user, id |-> id]

\* the history of the tabs' file operations: the changes of the calls that
\* returned, whether steps of two calls interleaved, per tab the change it is
\* making, the document as it loaded it and the changes other tabs saved to
\* the file since, and the last save that finished
NoRace ==
    [acked |-> {}, interleaved |-> FALSE,
     change |-> [t \in Tabs |-> Change("", "", 0)],
     loaded |-> [t \in Tabs |-> <<>>],
     stale |-> [t \in Tabs |-> {}],
     last |-> None]

Init ==
    /\ users = <<>>
    /\ books = <<>>
    /\ quotes = <<>>
    /\ session = [authenticated |-> FALSE, current_user |-> None,
                  current_page |-> "Home"]
    /\ clock = 0
    /\ issued = {}
    /\ call = Call("", <<>>, "", None)
    /\ pre = Snapshot
    /\ tabs = [t \in Tabs |-> Idle]
    /\ race = NoRace

\* time passes between two calls
Tick ==
    /\ clock < MaxClock
    /\ clock' = clock + 1
    /\ UNCHANGED <<users, books, quotes, session, issued, call, pre, tabs, race>>

register_user(username, password) ==
    /\ pre' = Snapshot
    /\ UNCHANGED <<tabs, race>>
    /\ UNCHANGED <<session, clock, issued>>
    /\ IF strip(username) = ""
       THEN /\ call' = Returned("register_user", <<username, password>>,
                           <<FALSE, "Username cannot be empty">>)
            /\ UNCHANGED <<users, books, quotes>>
       ELSE IF strip(password) = ""
       THEN /\ call' = Returned("register_user", <<username, password>>,
                           <<FALSE, "Password cannot be empty">>)
            /\ UNCHANGED <<users, books, quotes>>
       ELSE IF username \in DOMAIN users
       THEN /\ call' = Returned("register_user", <<username, password>>,
                           <<FALSE, "Username already exists">>)
            /\ UNCHANGED <<users, books, quotes>>
       ELSE /\ users' = DocSet(users, username, [password |-> password])
            /\ books' = DocSet(books, username, [books |-> <<>>])
            /\ quotes' = DocSet(quotes, username, [quotes |-> <<>>])
            /\ call' = Returned("register_user", <<username, password>>,
                           <<TRUE, "Registration successful">>)

\* the password check left out
IncorrectPassword_unchecked(stored, password) == FALSE

\* users[username]["password"] != password
IncorrectPassword(stored, password) == stored # password

\* a failed login that ends the session that was open
login_user_cleared(username, password) ==
    /\ pre' = Snapshot
    /\ UNCHANGED <<tabs, race>>
    /\ UNCHANGED <<users, books, quotes, clock, issued>>
    /\ IF username \in DOMAIN users
          /\ ~IncorrectPassword(users[username].password, password)
       THEN /\ session' = [session EXCEPT !.authenticated = TRUE,
                                          !.current_user = Some(username)]
            /\ call' = Returned("login_user", <<username, password>>,
                           <<TRUE, "Login successful">>)
       ELSE /\ session' = [session EXCEPT !.authenticated = FALSE,
                                          !.current_user = None]
            /\ call' = Returned("login_user", <<username, password>>,
                           <<FALSE, IF username \in DOMAIN users
                                    THEN "Incorrect password"
                                    ELSE "Username not found">>)

login_user(username, password) ==
    /\ pre' = Snapshot
    /\ UNCHANGED <<tabs, race>>
    /\ UNCHANGED <<users, books, quotes, clock, issued>>
    /\ IF username \notin DOMAIN users
       THEN /\ call' = Returned("login_user", <<username, password>>,
                           <<FALSE, "Username not found">>)
            /\ UNCHANGED session
       ELSE IF IncorrectPassword(users[username].password, password)
       THEN /\ call' = Returned("login_user", <<username, password>>,
                           <<FALSE, "Incorrect password">>)
            /\ UNCHANGED session
       ELSE /\ session' = [session EXCEPT !.authenticated = TRUE,
                                          !.current_user = Some(username)]
            /\ call' = Returned("login_user", <<username, password>>,
                           <<TRUE, "Login successful">>)

\* current_user left as it was
logout_user_partial ==
    /\ pre' = Snapshot
    /\ UNCHANGED <<tabs, race>>
    /\ session' = [session EXCEPT !.authenticated = FALSE,
                                  !.current_page = "Home"]
    /\ call' = Returned("logout_user", <<>>,
                   None)
    /\ UNCHANGED <<users, books, quotes, clock, issued>>

logout_user ==
    /\ pre' = Snapshot
    /\ UNCHANGED <<tabs, race>>
    /\ session' = [authenticated |-> FALSE, current_user |-> None,
                   current_page |-> "Home"]
    /\ call' = Returned("logout_user", <<>>,
                   None)
    /\ UNCHANGED <<users, books, quotes, clock, issued>>

\* an identifier that is not fresh: always the same token
uuid4_constant(id) ==
    /\ id = 1
    /\ issued' = issued \cup {id}

\* uuid.uuid4(): a token no earlier call returned
uuid4(id) ==
    /\ id \in UUIDs \ issued
    /\ issued' = issued \cup {id}

\* the clock read a second time for last_updated, a second later
StampBook_twice(book_data, now) ==
    FieldSet(FieldSet(book_data, "entry_date", now), "last_updated",
             strftime(now[2] + 1))

\* the record add_book stores: both stamps are the one reading of the clock
StampBook(book_data, now) ==
    FieldSet(FieldSet(book_data, "entry_date", now), "last_updated", now)

add_book(username, book_data) ==
    \E book_id \in UUIDs :
        /\ uuid4(book_id)
        /\ pre' = Snapshot
        /\ UNCHANGED <<tabs, race>>
        /\ UNCHANGED <<users, quotes, session, clock>>
        /\ IF username \notin DOMAIN books
           THEN \* books_data[username] raises before anything is saved
                /\ call' = Raised("add_book", <<username, book_data>>, "KeyError",
                               None)
                /\ UNCHANGED books
           ELSE /\ books' = [books EXCEPT ![username].books =
                                DictSet(@, book_id,
                                        StampBook(book_data, strftime(clock)))]
                /\ call' = Returned("add_book", <<username, book_data>>,
                               None)

\* the record update_book leaves: the merge, then a fresh last_updated
UpdatedBook(book, updates, now) ==
    FieldSet(DictUpdate(book, updates), "last_updated", now)

update_book(username, book_id, updates) ==
    /\ pre' = Snapshot
    /\ UNCHANGED <<tabs, race>>
    /\ UNCHANGED <<users, quotes, session, clock, issued>>
    /\ IF username \in DOMAIN books
          /\ book_id \in DictKeys(books[username].books)
       THEN /\ books' = [books EXCEPT ![username].books =
                            DictSet(@, book_id,
                                    UpdatedBook(DictGet(@, book_id), updates,
                                                strftime(clock)))]
            /\ call' = Returned("update_book", <<username, book_id, updates>>,
                           <<TRUE>>)
       ELSE /\ call' = Returned("update_book", <<username, book_id, updates>>,
                           <<FALSE>>)
            /\ UNCHANGED books

\* quote.get('book_id') == book_id
QuoteOfBook(quote, book_id) ==
    "book_id" \in DOMAIN quote /\ quote["book_id"] = book_id

\* every quote of the user deleted with the book
CascadeQuotes_all(qs, book_id) == <<>>

\* the quote map once the quotes_to_delete of a book are deleted from it
CascadeQuotes(qs, book_id) ==
    SelectSeq(qs, LAMBDA e : ~QuoteOfBook(e.v, book_id))

\* the cascade run whether or not the book was found
delete_book_dedented(username, book_id) ==
    /\ pre' = Snapshot
    /\ UNCHANGED <<tabs, race>>
    /\ UNCHANGED <<users, session, clock, issued>>
    /\ IF username \in DOMAIN quotes
       THEN quotes' = [quotes EXCEPT ![username].quotes =
                           CascadeQuotes(@, book_id)]
       ELSE UNCHANGED quotes
    /\ IF username \in DOMAIN books
          /\ book_id \in DictKeys(books[username].books)
       THEN /\ books' = [books EXCEPT ![username].books = DictDel(@, book_id)]
            /\ call' = Returned("delete_book", <<username, book_id>>,
                           <<TRUE>>)
       ELSE /\ call' = Returned("delete_book", <<username, book_id>>,
                           <<FALSE>>)
            /\ UNCHANGED books

delete_book(username, book_id) ==
    /\ pre' = Snapshot
    /\ UNCHANGED <<tabs, race>>
    /\ UNCHANGED <<users, session, clock, issued>>
    /\ IF username \in DOMAIN books
          /\ book_id \in DictKeys(books[username].books)
       THEN /\ books' = [books EXCEPT ![username].books = DictDel(@, book_id)]
            /\ IF username \in DOMAIN quotes
               THEN quotes' = [quotes EXCEPT ![username].quotes =
                                   CascadeQuotes(@, book_id)]
               ELSE UNCHANGED quotes
            /\ call' = Returned("delete_book", <<username, book_id>>,
                           <<TRUE>>)
       ELSE /\ call' = Returned("delete_book", <<username, book_id>>,
                           <<FALSE>>)
            /\ UNCHANGED <<books, quotes>>

add_quote(username, quote_data) ==
    \E quote_id \in UUIDs :
        /\ uuid4(quote_id)
        /\ pre' = Snapshot
        /\ UNCHANGED <<tabs, race>>
        /\ UNCHANGED <<users, books, session, clock>>
        /\ LET quotes_data ==
                   IF username \notin DOMAIN quotes
                   THEN DocSet(quotes, username, [quotes |-> <<>>])
                   ELSE quotes
           IN  quotes' = [quotes_data EXCEPT ![username].quotes =
                              DictSet(@, quote_id,
                                      FieldSet(quote_data, "entry_date",
                                               strftime(clock)))]
        /\ call' = Returned("add_quote", <<username, quote_data>>,
                       None)

delete_quote(username, quote_id) ==
    /\ pre' = Snapshot
    /\ UNCHANGED <<tabs, race>>
    /\ UNCHANGED <<users, books, session, clock, issued>>
    /\ IF username \in DOMAIN quotes
          /\ quote_id \in DictKeys(quotes[username].quotes)
       THEN /\ quotes' = [quotes EXCEPT ![username].quotes =
                              DictDel(@, quote_id)]
            /\ call' = Returned("delete_quote", <<username, quote_id>>,
                           <<TRUE>>)
       ELSE /\ call' = Returned("delete_quote", <<username, quote_id>>,
                           <<FALSE>>)
            /\ UNCHANGED quotes

(***************************************************************************)
(* Analysis                                                                *)
(***************************************************************************)

\* quote.get('book_title', 'Unknown Book')
TitleOf(quote) ==
    IF "book_title" \in DOMAIN quote THEN quote["book_title"]
    ELSE "Unknown Book"

\* the loop that fills book_counts, from entry i of the quote map on
RECURSIVE TallyFrom(_, _, _)
TallyFrom(qs, i, book_counts) ==
    IF i > Len(qs) THEN book_counts
    ELSE LET book_title == TitleOf(qs[i].v)
             seen == IF book_title \in DictKeys(book_counts)
                     THEN DictGet(book_counts, book_title) ELSE 0
         IN  TallyFrom(qs, i + 1, DictSet(book_counts, book_title, seen + 1))

\* a later item wins a tie
RECURSIVE MaxFrom_last(_, _, _)
MaxFrom_last(items, i, best) ==
    IF i > Len(items) THEN best
    ELSE MaxFrom_last(items, i + 1,
                      IF items[i].v >= best.v THEN items[i] ELSE best)

\* max(items, key=lambda x: x[1]): a later item wins only if strictly greater
RECURSIVE MaxFrom(_, _, _)
MaxFrom(items, i, best) ==
    IF i > Len(items) THEN best
    ELSE MaxFrom(items, i + 1,
                 IF items[i].v > best.v THEN items[i] ELSE best)

book_with_most_quotes(username) ==
    LET book_counts == TallyFrom(get_quotes(username), 1, <<>>)
    IN  IF Len(book_counts) > 0
        THEN LET m == MaxFrom(book_counts, 2, book_counts[1])
             IN  <<m.k, m.v>>
        ELSE None

call_book_with_most_quotes(username) ==
    /\ pre' = Snapshot
    /\ UNCHANGED <<tabs, race>>
    /\ call' = Returned("book_with_most_quotes", <<username>>,
                   book_with_most_quotes(username))
    /\ UNCHANGED <<users, books, quotes, session, clock, issued>>

\* the ASCII letters str.lower() changes, and what it makes of them
UpperCase == "ABCDEFGHIJKLMNOPQRSTUVWXYZ"

LowerCase == "abcdefghijklmnopqrstuvwxyz"

\* str.lower()
RECURSIVE lower(_)
lower(s) ==
    IF Len(s) = 0 THEN s
    ELSE LET c == Head(s)
             at == {i \in 1..Len(UpperCase) : SubSeq(UpperCase, i, i) = c}
             lc == IF at = {} THEN c
                   ELSE LET i == CHOOSE i \in at : TRUE
                        IN  SubSeq(LowerCase, i, i)
         IN  lc \o lower(Tail(s))

\* str(year) of a year that is not negative
RECURSIVE str(_)
str(n) ==
    IF n < 10 THEN SubSeq("0123456789", n + 1, n + 1)
    ELSE str(n \div 10) \o SubSeq("0123456789", (n % 10) + 1, (n % 10) + 1)

\* the year compared for equality, not searched for
Contains_exact(needle, hay) == needle = hay

\* needle in hay
Contains(needle, hay) ==
    \E i \in 1..(Len(hay) - Len(needle) + 1) :
        SubSeq(hay, i, i + Len(needle) - 1) = needle

\* v.get(field, default)
Get(rec, field, default) == IF field \in DOMAIN rec THEN rec[field] ELSE default

books_completed_in_year(username, year) ==
    SelectSeq(get_books(username),
              LAMBDA e : /\ lower(Get(e.v, "status", "")) = "completed"
                         /\ Contains(str(year), Get(e.v, "year", "")))

call_books_completed_in_year(username, year) ==
    /\ pre' = Snapshot
    /\ UNCHANGED <<tabs, race>>
    /\ call' = Returned("books_completed_in_year", <<username, year>>,
                        books_completed_in_year(username, year))
    /\ UNCHANGED <<users, books, quotes, session, clock, issued>>

\* the loop over book.get('genres', []), from genre i of the list on
RECURSIVE GenresFrom(_, _, _)
GenresFrom(genres, i, counts) ==
    IF i > Len(genres) THEN counts
    ELSE LET genre == genres[i]
             seen == IF genre \in DictKeys(counts)
                     THEN DictGet(counts, genre) ELSE 0
         IN  GenresFrom(genres, i + 1, DictSet(counts, genre, seen + 1))

\* the loop over books.values(), from entry i of the book map on: the counts
\* by status and by genre
RECURSIVE CountsFrom(_, _, _)
CountsFrom(bs, i, stats) ==
    IF i > Len(bs) THEN stats
    ELSE LET book == bs[i].v
             status == Get(book, "status", "Unknown")
             seen == IF status \in DictKeys(stats.books_by_status)
                     THEN DictGet(stats.books_by_status, status) ELSE 0
         IN  CountsFrom(bs, i + 1,
                 [stats EXCEPT
                     !.books_by_status = DictSet(@, status, seen + 1),
                     !.genres = GenresFrom(Get(book, "genres", <<>>), 1, @)])

\* the sort key x[1].get('entry_date', ''): stamps compare as their seconds,
\* and the empty string comes before every stamp
EntryDate(item) ==
    IF "entry_date" \in DOMAIN item.v THEN item.v["entry_date"][2] ELSE -1

\* an item put before the items of its own key
Place_before(sorted, item) ==
    LET n == Cardinality({i \in 1..Len(sorted) :
                             EntryDate(sorted[i]) > EntryDate(item)})
    IN  SubSeq(sorted, 1, n) \o <<item>> \o SubSeq(sorted, n + 1, Len(sorted))

\* an item taken into a list sorted by key descending: sorted() is stable with
\* reverse=True too, so it goes after the items of its own key
Place(sorted, item) ==
    LET n == Cardinality({i \in 1..Len(sorted) :
                             EntryDate(sorted[i]) >= EntryDate(item)})
    IN  SubSeq(sorted, 1, n) \o <<item>> \o SubSeq(sorted, n + 1, Len(sorted))

\* sorted(items, key=entry_date, reverse=True), from item i on
RECURSIVE SortedFrom(_, _, _)
SortedFrom(items, i, sorted) ==
    IF i > Len(items) THEN sorted
    ELSE SortedFrom(items, i + 1, Place(sorted, items[i]))

\* s[:n]
Slice(s, n) == SubSeq(s, 1, IF Len(s) < n THEN Len(s) ELSE n)

get_reading_stats(username) ==
    LET bs == get_books(username)
        qs == get_quotes(username)
        stats == CountsFrom(bs, 1,
                     [total_books |-> Len(bs), total_quotes |-> Len(qs),
                      books_by_status |-> <<>>, genres |-> <<>>])
        sorted_books == SortedFrom(bs, 1, <<>>)
    IN  [total_books |-> stats.total_books,
         total_quotes |-> stats.total_quotes,
         books_by_status |-> stats.books_by_status,
         genres |-> stats.genres,
         recent_books |-> Slice(sorted_books, 3)]

call_get_reading_stats(username) ==
    /\ pre' = Snapshot
    /\ UNCHANGED <<tabs, race>>
    /\ call' = Returned("get_reading_stats", <<username>>,
                        get_reading_stats(username))
    /\ UNCHANGED <<users, books, quotes, session, clock, issued>>

\* the comprehension that fills book_options, from entry i of the book map
\* on: a book of the label of an earlier one takes its place
RECURSIVE OptionsFrom(_, _, _)
OptionsFrom(bs, i, options) ==
    IF i > Len(bs) THEN options
    ELSE OptionsFrom(bs, i + 1,
             DictSet(options, bs[i].v["title"] \o " by " \o bs[i].v["author"],
                     [book_title |-> bs[i].v["title"], book_id |-> bs[i].k]))

\* the books of every user offered, not those of the user alone
book_options_everyone(username) ==
    OptionsFrom(get_books("alice") \o get_books("bob"), 1, <<>>)

\* the books the "Add Quote" form offers
book_options(username) == OptionsFrom(get_books(username), 1, <<>>)

\* the "Add Quote" form submitted with one of the books it offers; without
\* books there is no form
submit_add_quote(username) ==
    /\ get_books(username) # <<>>
    /\ \E selected_book \in DictKeys(book_options(username)) :
           LET book_info == DictGet(book_options(username), selected_book)
           IN  add_quote(username,
                         Quote(book_info.book_title, book_info.book_id))

(***************************************************************************)
(* The same functions step by step, for calls that run at the same time.   *)
(* users, books and quotes are what load_data gives for the three files:   *)
(* {} for a file that is empty or is not JSON.                             *)
(***************************************************************************)

load_data(filename) ==
    CASE filename = USERS_FILE -> users
      [] filename = BOOKS_FILE -> books
      [] filename = QUOTES_FILE -> quotes

\* the file is left holding content
Holds(filename, content) ==
    /\ users' = IF filename = USERS_FILE THEN content ELSE users
    /\ books' = IF filename = BOOKS_FILE THEN content ELSE books
    /\ quotes' = IF filename = QUOTES_FILE THEN content ELSE quotes

\* a step of tab t while another tab is inside a call
Interleaves(t) == \E o \in Tabs \ {t} : tabs[o].pc # "idle"

\* register_user up to its first save_data: the load and the three checks
register_user_load(t, username, password) ==
    /\ tabs[t].pc = "idle"
    /\ tabs[t].calls < MaxTabCalls
    /\ UNCHANGED <<users, books, quotes, session, clock, issued, call, pre>>
    /\ LET loaded == load_data(USERS_FILE)
       IN  IF \/ strip(username) = ""
              \/ strip(password) = ""
              \/ username \in DOMAIN loaded
           THEN /\ tabs' = [tabs EXCEPT ![t].calls = @ + 1]
                /\ race' = [race EXCEPT
                               !.interleaved = @ \/ Interleaves(t)]
           ELSE /\ tabs' = [tabs EXCEPT ![t] =
                               [pc |-> "save", fn |-> "register_user",
                                args |-> <<username, password>>,
                                file |-> USERS_FILE,
                                data |-> DocSet(loaded, username,
                                                [password |-> password]),
                                torn |-> FALSE, calls |-> @.calls + 1]]
                /\ race' = [race EXCEPT
                               !.interleaved = @ \/ Interleaves(t),
                               !.change[t] = Change("users", username, 0),
                               !.loaded[t] = loaded,
                               !.stale[t] = {}]

\* register_user between two save_data: the load of the next document and
\* the assignment of the user's empty entry
register_user_next(t) ==
    /\ tabs[t].pc = "load"
    /\ UNCHANGED <<users, books, quotes, session, clock, issued, call, pre>>
    /\ LET loaded == load_data(tabs[t].file)
           username == tabs[t].args[1]
           entry == IF tabs[t].file = BOOKS_FILE THEN [books |-> <<>>]
                    ELSE [quotes |-> <<>>]
           kind == IF tabs[t].file = BOOKS_FILE THEN "books" ELSE "quotes"
       IN  /\ tabs' = [tabs EXCEPT ![t].pc = "save",
                                   ![t].data = DocSet(loaded, username, entry)]
           /\ race' = [race EXCEPT
                          !.interleaved = @ \/ Interleaves(t),
                          !.change[t] = Change(kind, username, 0),
                          !.loaded[t] = loaded,
                          !.stale[t] = {}]

\* add_book up to its save_data
add_book_load(t, username, book_data) ==
    \E book_id \in UUIDs :
        /\ tabs[t].pc = "idle"
        /\ tabs[t].calls < MaxTabCalls
        /\ uuid4(book_id)
        /\ UNCHANGED <<users, books, quotes, session, clock, call, pre>>
        /\ LET books_data == load_data(BOOKS_FILE)
           IN  IF username \notin DOMAIN books_data
               THEN \* books_data[username] raises: the call ends here
                    /\ tabs' = [tabs EXCEPT ![t].calls = @ + 1]
                    /\ race' = [race EXCEPT
                                   !.interleaved = @ \/ Interleaves(t)]
               ELSE /\ tabs' = [tabs EXCEPT ![t] =
                                   [pc |-> "save", fn |-> "add_book",
                                    args |-> <<username, book_data>>,
                                    file |-> BOOKS_FILE,
                                    data |-> [books_data EXCEPT
                                        ![username].books =
                                            DictSet(@, book_id,
                                                StampBook(book_data,
                                                    strftime(clock)))],
                                    torn |-> FALSE, calls |-> @.calls + 1]]
                    /\ race' = [race EXCEPT
                                   !.interleaved = @ \/ Interleaves(t),
                                   !.change[t] =
                                       Change("book", username, book_id),
                                   !.loaded[t] = books_data,
                                   !.stale[t] = {}]

\* the change made again on the document the file holds now
Reapplied(change, data, held) ==
    IF change.kind = "book"
    THEN IF change.user \in DOMAIN held
         THEN [held EXCEPT ![change.user].books =
                  DictSet(@, change.id,
                          DictGet(data[change.user].books, change.id))]
         ELSE held
    ELSE DocSet(held, change.user, data[change.user])

\* the document read again under a lock and the change made on that
save_data_open_reloaded(t) ==
    /\ tabs[t].pc = "save"
    /\ tabs' = [tabs EXCEPT
                   ![t].pc = "dump", ![t].torn = FALSE,
                   ![t].data = Reapplied(race.change[t], @,
                                         load_data(tabs[t].file))]
    /\ Holds(tabs[t].file, <<>>)
    /\ race' = [race EXCEPT !.interleaved = @ \/ Interleaves(t)]
    /\ UNCHANGED <<session, clock, issued, call, pre>>

\* save_data, open(filename, 'w'): the file is emptied, whatever it held
save_data_open(t) ==
    /\ tabs[t].pc = "save"
    /\ tabs' = [tabs EXCEPT ![t].pc = "dump", ![t].torn = FALSE]
    /\ Holds(tabs[t].file, <<>>)
    /\ race' = [race EXCEPT !.interleaved = @ \/ Interleaves(t)]
    /\ UNCHANGED <<session, clock, issued, call, pre>>

\* the file register_user turns to after filename
FileAfter(filename) ==
    IF filename = USERS_FILE THEN BOOKS_FILE ELSE QUOTES_FILE

\* what a call that returned has assigned
ChangesOf(fn, change) ==
    IF fn = "register_user"
    THEN {Change(kind, change.user, 0) : kind \in {"users", "books", "quotes"}}
    ELSE {change}

\* save_data, json.dump and the close of the file: the text is written from
\* the start of the file.  If another tab wrote to the file while this tab
\* had it open, the end of that text may stay behind this one, and the file
\* is then not JSON.  After the last save_data the call returns.
save_data_dump(t) ==
    LET filename == tabs[t].file
        others == {o \in Tabs \ {t} : tabs[o].file = filename}
        returns == ~(tabs[t].fn = "register_user" /\ filename # QUOTES_FILE)
    IN  /\ tabs[t].pc = "dump"
        /\ \E content \in
                  IF tabs[t].torn THEN {tabs[t].data, <<>>} ELSE {tabs[t].data} :
               /\ Holds(filename, content)
               /\ race' = [race EXCEPT
                      !.interleaved = @ \/ Interleaves(t),
                      !.acked = IF returns
                                THEN @ \cup ChangesOf(tabs[t].fn, race.change[t])
                                ELSE @,
                      !.stale = [o \in Tabs |->
                                    IF o \in others /\ tabs[o].pc # "idle"
                                    THEN @[o] \cup {race.change[t]}
                                    ELSE @[o]],
                      !.last = Some([tab |-> t, file |-> filename,
                                     change |-> race.change[t],
                                     loaded |-> race.loaded[t],
                                     stale |-> race.stale[t],
                                     torn |-> tabs[t].torn,
                                     result |-> content])]
        /\ tabs' = [o \in Tabs |->
                       IF o = t
                       THEN IF returns
                            THEN [Idle EXCEPT !.calls = tabs[t].calls]
                            ELSE [tabs[t] EXCEPT !.pc = "load",
                                                 !.file = FileAfter(filename),
                                                 !.data = <<>>]
                       ELSE IF o \in others /\ tabs[o].pc = "dump"
                            THEN [tabs[o] EXCEPT !.torn = TRUE]
                            ELSE tabs[o]]
        /\ UNCHANGED <<session, clock, issued, call, pre>>

(***************************************************************************)
(* Specifications.  The functions are the same in all of them; each draws  *)
(* the arguments its claims are about, so that every one stays small.      *)
(***************************************************************************)

\* every function that writes a document, called for either owner
Next ==
    \/ \E u \in Owners : register_user(u, "pw")
    \/ \E u \in Owners : add_book(u, BookA)
    \/ \E u \in Owners, b \in UUIDs : update_book(u, b, StatusUpdate)
    \/ \E u \in Owners, b \in UUIDs : delete_book(u, b)
    \/ \E u \in Owners, b \in UUIDs : add_quote(u, Quote("A", b))
    \/ \E u \in Owners, q \in UUIDs : delete_quote(u, q)

Spec == Init /\ [][Next]_vars

\* registration and login with every username and password, over documents
\* that books and quotes are written to in between
NextAuth ==
    \/ \E u \in Usernames, p \in Passwords : register_user(u, p)
    \/ \E u \in Usernames, p \in Passwords : login_user(u, p)
    \/ logout_user
    \/ \E u \in Owners : Cardinality(issued) < MaxAuthIds /\ add_book(u, BookA)
    \/ \E u \in Owners :
           Cardinality(issued) < MaxAuthIds /\ add_quote(u, Quote("A", 1))

SpecAuth == Init /\ [][NextAuth]_vars

\* the books of the owners as the clock runs
NextBooks ==
    \/ Tick
    \/ \E u \in Owners : register_user(u, "pw")
    \/ \E u \in Owners, b \in BookInputs :
           Cardinality(issued) < MaxBookIds /\ add_book(u, b)
    \/ \E u \in Owners, b \in UUIDs, upd \in UpdateInputs :
           update_book(u, b, upd)

SpecBooks == Init /\ [][NextBooks]_vars

\* the quotes of the owners and the analysis of them
NextQuotes ==
    \/ \E u \in Owners, t \in Titles, b \in 1..2 : add_quote(u, Quote(t, b))
    \/ \E u \in Owners : add_quote(u, Untitled)
    \/ \E u \in Owners, q \in UUIDs : delete_quote(u, q)
    \/ \E u \in Owners : call_book_with_most_quotes(u)

SpecQuotes == Init /\ [][NextQuotes]_vars

\* the books of alice by status and year, and the yearly analysis of them
NextYear ==
    \/ register_user("alice", "pw")
    \/ \E b \in YearBookInputs : add_book("alice", b)
    \/ \E b \in UUIDs : delete_book("alice", b)
    \/ \E u \in Owners, y \in Years : call_books_completed_in_year(u, y)

SpecYear == Init /\ [][NextYear]_vars

\* the data files as an earlier run left them: alice registered, with one
\* book and one quote of it
InitStored ==
    /\ users = DocSet(<<>>, "alice", [password |-> "pw"])
    /\ books = DocSet(<<>>, "alice",
                   [books |-> DictSet(<<>>, 0, StampBook(BookB, strftime(0)))])
    /\ quotes = DocSet(<<>>, "alice",
                    [quotes |-> DictSet(<<>>, 0, Quote("B", 0))])
    /\ session = [authenticated |-> FALSE, current_user |-> None,
                  current_page |-> "Home"]
    /\ clock = 0
    /\ issued = {}
    /\ call = Call("", <<>>, "", None)
    /\ pre = Snapshot
    /\ tabs = [t \in Tabs |-> Idle]
    /\ race = NoRace

\* books added over time, some deleted, and the statistics of them
NextStats ==
    \/ Tick
    \/ \E b \in BookInputs : add_book("alice", b)
    \/ \E b \in 0..MaxIds : delete_book("alice", b)
    \/ \E u \in Owners : call_get_reading_stats(u)

SpecStats == InitStored /\ [][NextStats]_vars

\* two tabs registering and adding books, their file operations in any order
NextTabs ==
    \/ \E t \in Tabs, u \in Owners : register_user_load(t, u, "pw")
    \/ \E t \in Tabs : register_user_next(t)
    \/ \E t \in Tabs, u \in Owners : add_book_load(t, u, BookA)
    \/ \E t \in Tabs : save_data_open(t)
    \/ \E t \in Tabs : save_data_dump(t)

SpecTabs == Init /\ [][NextTabs]_vars

\* the functions as the pages call them, quotes added through the form only
NextUI ==
    \/ \E u \in Owners : register_user(u, "pw")
    \/ \E u \in Owners : add_book(u, BookA)
    \/ \E u \in Owners, b \in 0..MaxIds : update_book(u, b, StatusUpdate)
    \/ \E u \in Owners, b \in 0..MaxIds : delete_book(u, b)
    \/ \E u \in Owners : submit_add_quote(u)
    \/ \E u \in Owners, q \in 0..MaxIds : delete_quote(u, q)

SpecUI == InitStored /\ [][NextUI]_vars

(***************************************************************************)
(* Properties.  Each is about the call that was made last: call holds it   *)
(* and pre the documents and the session it found.                         *)
(***************************************************************************)

\* the book map and the quote map a call found for a username
PreBooks(u) == IF u \in DOMAIN pre.books THEN pre.books[u].books ELSE <<>>

PreQuotes(u) == IF u \in DOMAIN pre.quotes THEN pre.quotes[u].quotes ELSE <<>>

\* what a document holds for a username: nothing, or its one entry
Entry(doc, u) == IF u \in DOMAIN doc THEN <<doc[u]>> ELSE <<>>

\* every username either state of the book and quote documents knows
Known ==
    DOMAIN books \cup DOMAIN pre.books \cup DOMAIN quotes \cup DOMAIN pre.quotes

DocumentsUnchanged ==
    users = pre.users /\ books = pre.books /\ quotes = pre.quotes

\* the call found book b in u's book map
FoundBook(u, b) == u \in DOMAIN pre.books /\ b \in DictKeys(PreBooks(u))

FoundQuote(u, q) == u \in DOMAIN pre.quotes /\ q \in DictKeys(PreQuotes(u))

\* C1: delete_book(u, b) on a book b that u has returns True; afterwards b is
\* not among u's books, u's quotes are the former ones whose book_id is not b,
\* each as it was, u's other books are as they were, and so is every book and
\* quote of every other user.
C1_DeleteBookCascades ==
    (call.fn = "delete_book" /\ FoundBook(call.args[1], call.args[2])) =>
        LET u == call.args[1]
            b == call.args[2]
        IN  /\ call.raised = "" /\ call.ret = <<TRUE>>
            /\ b \notin DictKeys(get_books(u))
            /\ get_quotes(u) = SelectSeq(PreQuotes(u),
                                         LAMBDA e : e.v["book_id"] # b)
            /\ get_books(u) = SelectSeq(PreBooks(u), LAMBDA e : e.k # b)
            /\ \A v \in Known \ {u} :
                   /\ Entry(books, v) = Entry(pre.books, v)
                   /\ Entry(quotes, v) = Entry(pre.quotes, v)

\* a delete_book that removed quotes of the book and kept a quote of another
C1_Witness ==
    /\ call.fn = "delete_book" /\ call.ret = <<TRUE>>
    /\ Len(get_quotes(call.args[1])) > 0
    /\ Len(get_quotes(call.args[1])) < Len(PreQuotes(call.args[1]))

\* C2: the documents are partitioned by username: a call made with username
\* u leaves what the book and quote documents hold for every other username
\* as it was, so a user's maps hold only what calls with that username stored.
C2_PartitionedByUsername ==
    call.fn \in {"register_user", "add_book", "update_book", "delete_book",
                 "add_quote", "delete_quote"} =>
        \A v \in Known \ {call.args[1]} :
            /\ Entry(books, v) = Entry(pre.books, v)
            /\ Entry(quotes, v) = Entry(pre.quotes, v)

\* alice's book deleted while bob holds a quote that names the same book id
C2_Witness ==
    /\ call.fn = "delete_book" /\ call.ret = <<TRUE>>
    /\ call.args[1] = "alice"
    /\ \E i \in 1..Len(get_quotes("bob")) :
           get_quotes("bob")[i].v["book_id"] = call.args[2]

\* the fields of a book record that update_book's status form does not name
KeptByStatus ==
    {"title", "author", "year", "genres", "rating", "notes", "entry_date"}

\* C3: update_book(u, b, updates) on a book u has returns True, keeps u's
\* book ids and every other book, gives the book the fields of updates and
\* leaves every field updates does not name, last_updated apart, as it was;
\* with a status alone only status and last_updated can differ.
C3_UpdateMerges ==
    (call.fn = "update_book" /\ FoundBook(call.args[1], call.args[2])) =>
        LET u == call.args[1]
            b == call.args[2]
            updates == call.args[3]
            old == DictGet(PreBooks(u), b)
        IN  /\ call.raised = "" /\ call.ret = <<TRUE>>
            /\ Len(get_books(u)) = Len(PreBooks(u))
            /\ \A i \in 1..Len(PreBooks(u)) :
                   /\ get_books(u)[i].k = PreBooks(u)[i].k
                   /\ PreBooks(u)[i].k # b => get_books(u)[i] = PreBooks(u)[i]
            /\ LET new == DictGet(get_books(u), b)
               IN  /\ \A f \in DOMAIN old \ (DOMAIN updates \cup {"last_updated"}) :
                          f \in DOMAIN new /\ new[f] = old[f]
                   /\ \A f \in DOMAIN updates \ {"last_updated"} :
                          f \in DOMAIN new /\ new[f] = updates[f]
                   /\ DOMAIN updates = {"status"} =>
                          \A f \in KeptByStatus :
                              f \in DOMAIN new /\ new[f] = old[f]

\* a status update, a second after the book was added, that changed the status
C3_Witness ==
    /\ call.fn = "update_book" /\ call.ret = <<TRUE>>
    /\ call.args[3] = StatusUpdate
    /\ LET old == DictGet(PreBooks(call.args[1]), call.args[2])
           new == DictGet(get_books(call.args[1]), call.args[2])
       IN  /\ old["status"] # new["status"]
           /\ old["last_updated"] # new["last_updated"]
           /\ new["title"] = old["title"]

\* every character of s is whitespace (none, if s is empty)
IsBlank(s) == \A i \in 1..Len(s) : SubSeq(s, i, i) \in Whitespace

\* C4: register_user(username, password) fails exactly when the username is
\* blank, the password is blank or the username is already registered.  A
\* blank username fails with "Username cannot be empty", a blank password
\* with "Password cannot be empty", and a registered username, given with a
\* password that passes these checks, with "Username already exists".
C4_RegisterFailsExactlyWhen ==
    call.fn = "register_user" =>
        LET username == call.args[1]
            password == call.args[2]
            taken == username \in DOMAIN pre.users
        IN  /\ call.raised = ""
            /\ call.ret[1] = ~(IsBlank(username) \/ IsBlank(password) \/ taken)
            /\ IsBlank(username) =>
                   call.ret = <<FALSE, "Username cannot be empty">>
            /\ (~IsBlank(username) /\ IsBlank(password)) =>
                   call.ret = <<FALSE, "Password cannot be empty">>
            /\ (IsBlank(username) \/ IsBlank(password)) =>
                   call.ret[2] \in {"Username cannot be empty",
                                    "Password cannot be empty"}
            /\ (taken /\ ~IsBlank(username) /\ ~IsBlank(password)) =>
                   call.ret = <<FALSE, "Username already exists">>

\* alice registered a second time, with another password that is not blank
C4_Witness ==
    /\ call.fn = "register_user"
    /\ call.args = <<"alice", "wrong">>
    /\ call.ret = <<FALSE, "Username already exists">>
    /\ pre.users["alice"].password = "pw"

\* C5: login_user(username, password) succeeds exactly when the username is
\* registered and the stored password is the given string; it fails with
\* "Username not found" for an unknown username and "Incorrect password" for a
\* password that differs; a success leaves the session authenticated as that
\* username.  A successful register_user stores the password it was given and
\* no call changes or removes a stored user, so a login with the registered
\* password succeeds whatever was called in between.
C5_LoginChecksStoredPassword ==
    /\ call.fn = "login_user" =>
           LET username == call.args[1]
               password == call.args[2]
               known == username \in DOMAIN pre.users
           IN  /\ call.raised = ""
               /\ call.ret[1] =
                      (known /\ pre.users[username].password = password)
               /\ ~known => call.ret = <<FALSE, "Username not found">>
               /\ (known /\ pre.users[username].password # password) =>
                      call.ret = <<FALSE, "Incorrect password">>
               /\ call.ret[1] =>
                      /\ session.authenticated
                      /\ session.current_user = Some(username)
    /\ (call.fn = "register_user" /\ call.ret[1]) =>
           /\ call.args[1] \in DOMAIN users
           /\ users[call.args[1]].password = call.args[2]
    /\ \A u \in DOMAIN pre.users : u \in DOMAIN users /\ users[u] = pre.users[u]

\* alice logs in with her password after a book of hers was stored, while bob
\* is registered with another password
C5_Witness ==
    /\ call.fn = "login_user"
    /\ call.args = <<"alice", "pw">>
    /\ call.ret = <<TRUE, "Login successful">>
    /\ session.current_user = Some("alice")
    /\ Len(get_books("alice")) > 0
    /\ "bob" \in DOMAIN users /\ users["bob"].password = "wrong"

\* C6: add_book(u, fields) for a registered user u leaves get_books(u) as it
\* was with one record more, whose given fields are the values passed and
\* whose entry_date is its last_updated.
C6_AddBookReadBack ==
    (call.fn = "add_book" /\ call.args[1] \in DOMAIN pre.users) =>
        LET u == call.args[1]
            fields == call.args[2]
        IN  /\ call.raised = ""
            /\ Len(get_books(u)) = Len(PreBooks(u)) + 1
            /\ SubSeq(get_books(u), 1, Len(PreBooks(u))) = PreBooks(u)
            /\ LET new == get_books(u)[Len(get_books(u))].v
               IN  /\ \A f \in DOMAIN fields :
                          f \in DOMAIN new /\ new[f] = fields[f]
                   /\ "entry_date" \in DOMAIN new
                   /\ "last_updated" \in DOMAIN new
                   /\ new["entry_date"] = new["last_updated"]

\* a second book added, a second after the first
C6_Witness ==
    /\ call.fn = "add_book" /\ call.raised = ""
    /\ Len(get_books(call.args[1])) = 2
    /\ get_books(call.args[1])[1].v["entry_date"]
           # get_books(call.args[1])[2].v["entry_date"]

\* the keys of an ordered dict are pairwise different
DistinctKeys(d) == \A i, j \in 1..Len(d) : d[i].k = d[j].k => i = j

\* C7: an add_book for a registered user and an add_quote store their record
\* under an identifier the user's map did not have: the records there stay as
\* they were and the map has exactly one entry more, so two adds in a row give
\* two different identifiers, both in the map.
C7_AddUsesFreshIdentifier ==
    /\ (call.fn = "add_book" /\ call.args[1] \in DOMAIN pre.users) =>
           LET u == call.args[1]
           IN  /\ Len(get_books(u)) = Len(PreBooks(u)) + 1
               /\ SubSeq(get_books(u), 1, Len(PreBooks(u))) = PreBooks(u)
               /\ get_books(u)[Len(get_books(u))].k \notin DictKeys(PreBooks(u))
               /\ DistinctKeys(get_books(u))
    /\ call.fn = "add_quote" =>
           LET u == call.args[1]
           IN  /\ Len(get_quotes(u)) = Len(PreQuotes(u)) + 1
               /\ SubSeq(get_quotes(u), 1, Len(PreQuotes(u))) = PreQuotes(u)
               /\ get_quotes(u)[Len(get_quotes(u))].k
                      \notin DictKeys(PreQuotes(u))
               /\ DistinctKeys(get_quotes(u))

\* the second of two books of a user added
C7_Witness ==
    /\ call.fn = "add_book" /\ call.raised = ""
    /\ Len(PreBooks(call.args[1])) = 1
    /\ Len(get_books(call.args[1])) = 2
    /\ get_books(call.args[1])[1].k # get_books(call.args[1])[2].k

\* C8: update_book and delete_book on a username the books document does not
\* have or a book id the user does not have, and delete_quote on a username
\* the quotes document does not have or a quote id the user does not have,
\* return False, raise nothing and leave the three documents as they were.
C8_MissingIsFalse ==
    /\ (call.fn \in {"update_book", "delete_book"}
            /\ ~FoundBook(call.args[1], call.args[2])) =>
           call.raised = "" /\ call.ret = <<FALSE>> /\ DocumentsUnchanged
    /\ (call.fn = "delete_quote" /\ ~FoundQuote(call.args[1], call.args[2])) =>
           call.raised = "" /\ call.ret = <<FALSE>> /\ DocumentsUnchanged

\* delete_book of an id the user's book map lacks while a quote names that id
C8_Witness ==
    /\ call.fn = "delete_book" /\ call.ret = <<FALSE>>
    /\ call.args[1] \in DOMAIN books
    /\ \E i \in 1..Len(get_quotes(call.args[1])) :
           get_quotes(call.args[1])[i].v["book_id"] = call.args[2]

\* C9: a successful register_user(u, p) leaves the users document with p as
\* u's password and the books and quotes documents with an empty map for u,
\* so get_books(u) and get_quotes(u) are empty, whatever the documents held
\* for u before.
C9_RegisterInitialises ==
    (call.fn = "register_user" /\ call.ret[1]) =>
        LET u == call.args[1]
        IN  /\ u \in DOMAIN users /\ users[u] = [password |-> call.args[2]]
            /\ u \in DOMAIN books /\ books[u] = [books |-> <<>>]
            /\ u \in DOMAIN quotes /\ quotes[u] = [quotes |-> <<>>]
            /\ get_books(u) = <<>> /\ get_quotes(u) = <<>>

\* a registration of a username that add_quote had stored a quote for
C9_Witness ==
    /\ call.fn = "register_user" /\ call.ret[1]
    /\ Len(PreQuotes(call.args[1])) > 0

\* the titles of a quote map, in its order
TitlesOf(qs) == [i \in 1..Len(qs) |-> TitleOf(qs[i].v)]

\* how many quotes of the map have the title, and where the first of them is
CountOf(qs, t) == Cardinality({i \in 1..Len(qs) : TitlesOf(qs)[i] = t})

FirstOf(qs, t) == CHOOSE i \in 1..Len(qs) :
    /\ TitlesOf(qs)[i] = t
    /\ \A j \in 1..(i - 1) : TitlesOf(qs)[j] # t

\* C10: book_with_most_quotes(u) is None when u has no quotes; otherwise it is
\* a title of u's quotes with the number of quotes that have it, no title has
\* more, and every other title with as many comes later in the quote map.
\* Quotes titled A, A, B give ("A", 2).
C10_MostQuotedTitle ==
    call.fn = "book_with_most_quotes" =>
        LET qs == get_quotes(call.args[1])
            all == {TitlesOf(qs)[i] : i \in 1..Len(qs)}
        IN  /\ (call.ret = None) = (Len(qs) = 0)
            /\ Len(qs) > 0 =>
                   /\ Len(call.ret) = 2
                   /\ call.ret[1] \in all
                   /\ call.ret[2] = CountOf(qs, call.ret[1])
                   /\ \A t \in all : CountOf(qs, t) <= call.ret[2]
                   /\ \A t \in all \ {call.ret[1]} :
                          CountOf(qs, t) = call.ret[2] =>
                              FirstOf(qs, call.ret[1]) < FirstOf(qs, t)
            /\ TitlesOf(qs) = <<"A", "A", "B">> => call.ret = <<"A", 2>>

\* two titles with one quote each: the one met first is returned
C10_Witness ==
    /\ call.fn = "book_with_most_quotes"
    /\ TitlesOf(get_quotes(call.args[1])) = <<"B", "A">>
    /\ call.ret = <<"B", 1>>

\* the spellings that equal "completed" when case is ignored
CompletedSpellings == {"Completed", "completed", "COMPLETED"}

\* the decimal text of the years asked for
YearText == [y \in Years |-> IF y = 2021 THEN "2021" ELSE "1920"]

\* hay has a stretch of characters that is needle
HasInfix(hay, needle) ==
    \E i \in 0..Len(hay), j \in 0..Len(hay) :
        i <= j /\ SubSeq(hay, i + 1, j) = needle

\* C11: books_completed_in_year(u, year) returns the books of u, in the book
\* map's order, whose status is "completed" in any letter case and whose year
\* string contains the decimal text of year; for 2021 a Completed book of
\* year "2021" or "20210" is in it and a Dropped book of year "2021" is not;
\* the call changes no document.
C11_CompletedInYear ==
    call.fn = "books_completed_in_year" =>
        LET u == call.args[1]
            year == call.args[2]
            bs == get_books(u)
        IN  /\ call.raised = ""
            /\ call.ret =
                   SelectSeq(bs, LAMBDA e :
                       /\ e.v["status"] \in CompletedSpellings
                       /\ HasInfix(e.v["year"], YearText[year]))
            /\ year = 2021 =>
                   \A i \in 1..Len(bs) :
                       LET in == \E k \in 1..Len(call.ret) : call.ret[k] = bs[i]
                       IN  /\ (bs[i].v["status"] = "Completed"
                                 /\ bs[i].v["year"] \in {"2021", "20210"}) => in
                           /\ (bs[i].v["status"] = "Dropped"
                                 /\ bs[i].v["year"] = "2021") => ~in
            /\ DocumentsUnchanged

\* the three books of the example, asked for 2021: the Dropped one is left out
C11_Witness ==
    /\ call.fn = "books_completed_in_year"
    /\ call.args[2] = 2021
    /\ Len(get_books(call.args[1])) = 3
    /\ Len(call.ret) = 2
    /\ \E i \in 1..2 : call.ret[i].v["year"] = "20210"
    /\ \E i \in 1..3 : get_books(call.args[1])[i].v["status"] = "Dropped"

\* book i of the map comes before book j in the order of recency
MoreRecent(bs, i, j) ==
    \/ bs[i].v["entry_date"][2] > bs[j].v["entry_date"][2]
    \/ bs[i].v["entry_date"][2] = bs[j].v["entry_date"][2] /\ i < j

\* the place of book i in the order of recency
RankOf(bs, i) == 1 + Cardinality({j \in 1..Len(bs) : MoreRecent(bs, j, i)})

\* the sum of the counts of a tally
RECURSIVE SumOf(_)
SumOf(counts) == IF Len(counts) = 0 THEN 0 ELSE Head(counts).v + SumOf(Tail(counts))

\* C12: get_reading_stats(u).recent_books holds min(3, number of books of u)
\* entries, the books with the greatest entry_date, by entry_date descending,
\* books of one entry_date in the order of the book map; total_books is the
\* sum of the counts in books_by_status.
C12_RecentBooks ==
    call.fn = "get_reading_stats" =>
        LET bs == get_books(call.args[1])
            recent == call.ret.recent_books
        IN  /\ Len(recent) = IF Len(bs) < 3 THEN Len(bs) ELSE 3
            /\ \A i \in 1..Len(bs) :
                   RankOf(bs, i) <= 3 => recent[RankOf(bs, i)] = bs[i]
            /\ call.ret.total_books = Len(bs)
            /\ call.ret.total_books = SumOf(call.ret.books_by_status)
            /\ \A i \in 1..Len(call.ret.books_by_status) :
                   LET c == call.ret.books_by_status[i]
                   IN  c.v = Cardinality({j \in 1..Len(bs) :
                                             bs[j].v["status"] = c.k})

\* four books of two statuses, the two latest of one entry_date: they come
\* first, in the order of the map, and the oldest book is cut off
C12_Witness ==
    /\ call.fn = "get_reading_stats"
    /\ Len(get_books(call.args[1])) = 4
    /\ Len(call.ret.books_by_status) = 2
    /\ LET bs == get_books(call.args[1])
           recent == call.ret.recent_books
       IN  /\ recent = <<bs[3], bs[4], bs[1]>>
           /\ EntryDate(bs[3]) = EntryDate(bs[4])
           /\ EntryDate(bs[1]) = EntryDate(bs[2])
           /\ EntryDate(bs[3]) > EntryDate(bs[1])

\* the change is in the document
PresentIn(change, doc) ==
    /\ change.user \in DOMAIN doc
    /\ change.kind = "book" => change.id \in DictKeys(doc[change.user].books)

\* the change is in the stored state
Present(change) ==
    PresentIn(change, CASE change.kind = "users" -> users
                        [] change.kind = "quotes" -> quotes
                        [] OTHER -> books)

\* C13: a save that finishes stores the document as its own call loaded it
\* with its own change and nothing else (last writer wins, no merge): a
\* change another call saved between this call's load and this save is in
\* the stored document only if it was in the loaded one or is the same
\* change; and as long as the steps of no two calls interleaved, the change
\* of every call that returned is in the stored state whenever no save is
\* under way.
C13_LastWriterWins ==
    /\ race.last # None =>
           LET w == race.last[1]
               c == w.change
           IN  ~w.torn =>
                   /\ PresentIn(c, w.result)
                   /\ \A u \in DOMAIN w.result \ {c.user} :
                          u \in DOMAIN w.loaded /\ w.result[u] = w.loaded[u]
                   /\ c.kind = "book" =>
                          DictDel(w.result[c.user].books, c.id) =
                              DictDel(w.loaded[c.user].books, c.id)
                   /\ \A o \in w.stale :
                          PresentIn(o, w.result) =>
                              PresentIn(o, w.loaded) \/ o = c
    /\ (~race.interleaved /\ \A t \in Tabs : tabs[t].pc # "dump") =>
           \A c \in race.acked : Present(c)

\* two add_book calls that both loaded before either saved and both
\* returned: the book of the one that saved first is not in the document
C13_Witness ==
    /\ race.last # None
    /\ LET w == race.last[1]
       IN  /\ ~w.torn
           /\ w.change.kind = "book"
           /\ w.change \in race.acked
           /\ books = w.result
           /\ \E o \in w.stale \cap race.acked :
                  /\ o.kind = "book"
                  /\ ~PresentIn(o, w.loaded)
                  /\ ~Present(o)

\* C14: with quotes added only through the form, which offers the books in
\* the user's book map, every stored quote's book_id is the id of a book in
\* the same user's book map, whatever was registered, added, updated and
\* deleted before.
C14_NoDanglingQuote ==
    \A u \in DOMAIN quotes :
        \A i \in 1..Len(quotes[u].quotes) :
            LET quote == quotes[u].quotes[i].v
            IN  /\ "book_id" \in DOMAIN quote
                /\ u \in DOMAIN books
                /\ quote["book_id"] \in DictKeys(books[u].books)

\* a book deleted together with its quote, while a quote of another book of
\* the user stays
C14_Witness ==
    /\ call.fn = "delete_book"
    /\ call.ret = <<TRUE>>
    /\ Len(PreQuotes(call.args[1])) = 2
    /\ Len(get_quotes(call.args[1])) = 1
    /\ Len(get_books(call.args[1])) = 1
    /\ get_quotes(call.args[1])[1].v["book_id"] = get_books(call.args[1])[1].k

\* C15: the session is authenticated exactly when current_user is not None,
\* and then current_user is a key of the users document; the session starts
\* unauthenticated, only a login_user that succeeds makes it authenticated,
\* and after logout_user it is unauthenticated, without a user and on "Home",
\* whatever it was.
C15_SessionConsistent ==
    /\ session.authenticated = (session.current_user # None)
    /\ session.authenticated => session.current_user[1] \in DOMAIN users
    /\ call.fn = "" => ~session.authenticated
    /\ (session.authenticated /\ ~pre.session.authenticated) =>
           /\ call.fn = "login_user"
           /\ call.ret[1]
           /\ session.current_user = Some(call.args[1])
    /\ call.fn = "logout_user" =>
           session = [authenticated |-> FALSE, current_user |-> None,
                      current_page |-> "Home"]

\* logout_user in a session that was authenticated as alice
C15_Witness ==
    /\ call.fn = "logout_user"
    /\ pre.session.authenticated
    /\ pre.session.current_user = Some("alice")
    /\ ~session.authenticated

\* C16: a register_user or login_user that fails leaves the users, books and
\* quotes documents and the session as they were: a rejected duplicate
\* registration keeps the stored password and the user's books and quotes,
\* and a failed login keeps the user who was logged in.
C16_FailureChangesNothing ==
    (call.fn \in {"register_user", "login_user"} /\ ~call.ret[1]) =>
        /\ DocumentsUnchanged
        /\ session = pre.session

\* bob, registered, fails to log in while alice, who has a book, is logged in
C16_Witness ==
    /\ call.fn = "login_user"
    /\ call.args[1] = "bob"
    /\ call.ret = <<FALSE, "Incorrect password">>
    /\ pre.session.current_user = Some("alice")
    /\ session.authenticated
    /\ Len(get_books("alice")) > 0

====
